---- MODULE Spec2Model ----
(***************************************************************************)
(* gtxr (bin/gitauto.js): the interactive add -> commit -> push workflow,  *)
(* the commit-message step with its optional AI path, and the push         *)
(* dispatcher.  Every git call that changes the repository or the remote   *)
(* (checkout, add, commit, push, pull) is recorded in gitLog, and so is    *)
(* the rev-parse repository check; the other read-only queries (branch     *)
(* --show-current, status, diff) are modelled by the results they return.  *)
(* The remote URL is only printed and is left out.  Strings are TLA+       *)
(* strings, and the string methods the code uses (includes, toLowerCase,   *)
(* trim, split) are computed on them character by character.               *)
(* Spec follows one run of the workflow from the options on; SpecAiError   *)
(* applies handleAiError to a range of error messages; SpecArgs starts at  *)
(* the command line and follows parseArgs, the entry point and the         *)
(* subcommands; SpecCli follows one invocation after another, with         *)
(* config.json kept as the text saveConfig writes and loadConfig parses.   *)
(***************************************************************************)
EXTENDS Integers, Sequences, FiniteSets, TLC

\* ---------------------------------------------------------------------------
\* Bounds
\* ---------------------------------------------------------------------------
\* Largest number of "r" (regenerate) answers followed in one run.
MaxRegen == 1

\* ---------------------------------------------------------------------------
\* JavaScript values the model needs
\* ---------------------------------------------------------------------------
\* opts.branch when no --branch was given.
Null == "<null>"
\* A property that is absent from an object.
Undefined == "<undefined>"
\* exitCode while the process is still running.
Running == -1
\* pushRet while push() has not returned; <<b>> once it returned b.
NotReturned == <<>>

\* ---------------------------------------------------------------------------
\* String methods
\* ---------------------------------------------------------------------------
UpperAlpha == "ABCDEFGHIJKLMNOPQRSTUVWXYZ"
LowerAlpha == "abcdefghijklmnopqrstuvwxyz"

\* The lower-case letter of each upper-case letter.
LowerOf ==
  [c \in {SubSeq(UpperAlpha, i, i) : i \in 1..26} |->
     LET i == CHOOSE j \in 1..26 : SubSeq(UpperAlpha, j, j) = c
     IN  SubSeq(LowerAlpha, i, i)]

\* One character of String.prototype.toLowerCase.
LowerChar(c) == IF c \in DOMAIN LowerOf THEN LowerOf[c] ELSE c

RECURSIVE ToLowerCase(_)
\* String.prototype.toLowerCase.
ToLowerCase(s) ==
  IF Len(s) = 0 THEN ""
  ELSE LowerChar(SubSeq(s, 1, 1)) \o ToLowerCase(SubSeq(s, 2, Len(s)))

\* String.prototype.includes: k occurs in s as a contiguous substring.
Includes(s, k) ==
  \E i \in 1..(Len(s) - Len(k) + 1) : SubSeq(s, i, i + Len(k) - 1) = k

IsSpace(c) == c = " " \/ c = "\t" \/ c = "\n"

RECURSIVE TrimStart(_)
TrimStart(s) ==
  IF Len(s) > 0 /\ IsSpace(SubSeq(s, 1, 1))
  THEN TrimStart(SubSeq(s, 2, Len(s)))
  ELSE s

RECURSIVE TrimEnd(_)
TrimEnd(s) ==
  IF Len(s) > 0 /\ IsSpace(SubSeq(s, Len(s), Len(s)))
  THEN TrimEnd(SubSeq(s, 1, Len(s) - 1))
  ELSE s

\* String.prototype.trim.
Trim(s) == TrimEnd(TrimStart(s))

\* prompt(question): the line the user typed, trimmed.
prompt(line) == Trim(line)


RECURSIVE Split(_)
\* String.prototype.split(" ").
Split(s) ==
  IF ~Includes(s, " ") THEN <<s>>
  ELSE LET i == CHOOSE j \in 1..Len(s) :
                   /\ SubSeq(s, j, j) = " "
                   /\ \A k \in 1..(j - 1) : SubSeq(s, k, k) # " "
       IN  <<SubSeq(s, 1, i - 1)>> \o Split(SubSeq(s, i + 1, Len(s)))

\* ---------------------------------------------------------------------------
\* Inputs: what the user, git, npm and the AI provider can hand to the program
\* ---------------------------------------------------------------------------
PROVIDERS == {"openai", "anthropic", "gemini"}

AI_PACKAGES ==
  [p \in PROVIDERS |->
     CASE p = "openai" -> "openai"
       [] p = "anthropic" -> "@anthropic-ai/sdk"
       [] p = "gemini" -> "@google/genai"]

\* The options record parseArgs builds when no subcommand, --help or
\* --version was given, which is when run() is reached.
OptBranches == {Null, "main"}
Options ==
  [version : {FALSE}, help : {FALSE}, setup : {FALSE}, upgrade : {FALSE},
   uninstall : {FALSE}, noPush : BOOLEAN, noAi : BOOLEAN, forcePush : BOOLEAN,
   branch : OptBranches]

\* The branch the repository is on when the program starts.
HeadBranches == {"main", "dev"}

\* The value a configuration file parses to.
ConfigObject(p, k) == [type |-> "object", provider |-> p, apiKey |-> k]
ConfigNull == [type |-> "null", provider |-> Undefined, apiKey |-> Undefined]
ConfigScalar == [type |-> "scalar", provider |-> Undefined, apiKey |-> Undefined]
EmptyRecord == ConfigObject(Undefined, Undefined)

\* States of ~/.gtxr/config.json: absent, not JSON, or JSON text with the
\* value it parses to.
ConfigFiles ==
  {[kind |-> "absent", value |-> EmptyRecord],
   [kind |-> "corrupt", value |-> EmptyRecord]}
  \cup
  {[kind |-> "json", value |-> v] :
     v \in {ConfigNull, ConfigScalar,
            ConfigObject("openai", Undefined),
            ConfigObject("gemini", ""),
            ConfigObject("openai", "sk-test"),
            ConfigObject("palm", "sk-test")}}

\* stderr of a failed git push, as git() returns it (trimmed).
StderrTexts ==
  {"fatal: The current branch has no upstream branch",
   "! [rejected] main -> main (non-fast-forward)",
   "! [rejected] main -> main (fetch first)",
   "Updates were REJECTED",
   "no upstream; push rejected",
   "has no upstream (non-fast-forward)",
   "fatal: No Upstream branch",
   "No Upstream; rejected",
   "fatal: unable to access remote",
   ""}

\* Lines the user can type at the prompts, before trimming.
FilesLines == {"", "a.txt b.txt"}
GenerateLines == {"", "Y", "n", " no "}
ChoiceLines == {"", "Y", "r", " R", "m", "x"}
MessageLines == {"", "   ", " fix typo "}
PushLines == {"", " Y ", "n", "yes"}

\* Text the provider can return, before trimming, and the messages of the
\* errors a provider call can throw.
AiTexts == {"Fix login bug", "  "}
AiErrorMessages ==
  {"insufficient_quota", "401 Unauthorized", "429 too many requests",
   "ECONNRESET"}

\* Output of git status --short and of git diff.
StatusOutputs == {"", "M a.txt"}
DiffOutputs == {"", "+x"}

\* ---------------------------------------------------------------------------
\* Subprocess results
\* ---------------------------------------------------------------------------
GitResult(ok, stdout, stderr) == [ok |-> ok, stdout |-> stdout, stderr |-> stderr]

\* Results of a git command whose stdout, when it succeeds, is in outs.
GitResults(outs) ==
  {GitResult(TRUE, o, "") : o \in outs} \cup {GitResult(FALSE, "", "fatal: error")}

\* Results of a git push: success, or failure with any of the stderr texts.
PushResults ==
  {GitResult(TRUE, "", "")} \cup {GitResult(FALSE, "", e) : e \in StderrTexts}

\* ---------------------------------------------------------------------------
\* State
\* ---------------------------------------------------------------------------
VARIABLES
  pc,            \* position of the single control flow
  opts,          \* the options record
  cfgFile,       \* ~/.gtxr/config.json
  sdkInstalled,  \* the configured provider's SDK is in ~/.gtxr/node_modules
  head,          \* the branch the repository is on
  branch,        \* run(): let branch
  status,        \* run(): const status
  config,        \* run(): const config
  diff,          \* run(): const diff
  message,       \* run(): const message
  aiMsg,         \* getCommitMessage(): const msg of the current iteration
  r,             \* push(): let r
  gitLog,        \* checkout/add/commit/push/pull calls issued, with results
  exitCode,      \* the process's exit status, Running until it ends
  pushRet,       \* what push() returned
  printed,       \* the messages written to the console
  aiCalls,       \* number of callAI invocations
  installs,      \* number of npm install runs
  regens,        \* number of "r" answers
  manualPrompts, \* number of "Commit message: " prompts
  generateAns,   \* answer to "Generate commit message with AI?"
  pushAns,       \* answer to "Push to remote?"
  aiOut,         \* what the last callAI returned or threw
  argv,          \* process.argv
  welcomed,      \* ~/.gtxr/.welcomed exists
  setupProvider, \* cmdSetup(): const provider
  setupKey       \* cmdSetup(): const apiKey

\* The state only the command-line front door and the subcommands touch.
cliVars == <<argv, welcomed, setupProvider, setupKey>>

vars == <<cliVars, aiOut, pc, opts, cfgFile, sdkInstalled, head, branch, status, config, diff, message,
          aiMsg, r, gitLog, exitCode, pushRet, printed, aiCalls, installs,
          regens, manualPrompts, generateAns, pushAns>>

\* No question asked yet.
NotAsked == "<not asked>"

\* aiOut before the first callAI.
NoOutcome == [threw |-> FALSE, value |-> Undefined]

\* const opts at the start of parseArgs.
DefaultOpts ==
  [version |-> FALSE, help |-> FALSE, setup |-> FALSE, upgrade |-> FALSE,
   uninstall |-> FALSE, noPush |-> FALSE, noAi |-> FALSE, forcePush |-> FALSE,
   branch |-> Null]

\* A command line that parseArgs turns into the options o.
ArgvFor(o) ==
  <<"node", "gtxr">>
  \o (IF o.noPush THEN <<"--no-push">> ELSE <<>>)
  \o (IF o.noAi THEN <<"--no-ai">> ELSE <<>>)
  \o (IF o.forcePush THEN <<"--force-push">> ELSE <<>>)
  \o (IF o.branch # Null THEN <<"--branch", o.branch>> ELSE <<>>)

Init ==
  /\ pc = "run"
  /\ opts \in Options
  /\ argv = ArgvFor(opts)
  /\ welcomed = TRUE
  /\ setupProvider = Undefined
  /\ setupKey = Undefined
  /\ aiOut = NoOutcome
  /\ cfgFile \in ConfigFiles
  /\ sdkInstalled \in BOOLEAN
  /\ sdkInstalled => cfgFile.value.provider \in PROVIDERS
  /\ head \in HeadBranches
  /\ branch = Undefined
  /\ status = Undefined
  /\ config = EmptyRecord
  /\ diff = ""
  /\ message = Undefined
  /\ aiMsg = ""
  /\ r = GitResult(TRUE, "", "")
  /\ gitLog = <<>>
  /\ exitCode = Running
  /\ pushRet = NotReturned
  /\ printed = {}
  /\ aiCalls = 0
  /\ installs = 0
  /\ regens = 0
  /\ manualPrompts = 0
  /\ generateAns = NotAsked
  /\ pushAns = NotAsked

\* git(...args) for a call that is recorded: the log with the call's entry.
Logged(args, res) == Append(gitLog, [args |-> args, ok |-> res.ok, stderr |-> res.stderr])

\* process.exit(code) after printing the message tagged tag.
Exit(code, tag) ==
  /\ pc' = "exited"
  /\ exitCode' = code
  /\ printed' = printed \cup {tag}


\* JavaScript truthiness of a string-or-missing value.
Truthy(v) == v # Undefined /\ v # Null /\ v # ""

\* ---------------------------------------------------------------------------
\* Git helpers and config
\* ---------------------------------------------------------------------------
isGitRepo(res) == res.ok
getStatus(res) == IF res.ok THEN res.stdout ELSE ""
getCurrentBranch(res) == IF res.ok THEN res.stdout ELSE "main"

getDiff(staged, unstaged) ==
  IF staged.ok /\ staged.stdout # "" THEN staged.stdout
  ELSE IF unstaged.ok THEN unstaged.stdout ELSE ""

\* The character of s at position i, "" past its end.
CharAt(s, i) == IF i >= 1 /\ i <= Len(s) THEN SubSeq(s, i, i) ELSE ""

\* Mutant: a string is written between quotes as it is.
Escape_Nothing(c) == c

\* JSON.stringify of one character of a string: the quote, the backslash
\* and the control characters are escaped.
Escape(c) ==
  CASE c = "\"" -> "\\\""
    [] c = "\\" -> "\\\\"
    [] c = "\n" -> "\\n"
    [] c = "\t" -> "\\t"
    [] OTHER -> c

RECURSIVE EscapeAll(_)
EscapeAll(s) ==
  IF Len(s) = 0 THEN "" ELSE Escape(SubSeq(s, 1, 1)) \o EscapeAll(SubSeq(s, 2, Len(s)))

\* JSON.stringify of a string.
Quote(s) == "\"" \o EscapeAll(s) \o "\""

\* JSON.stringify({ provider, apiKey }, null, 2).
JSONstringify(data) ==
  "{\n  \"provider\": " \o Quote(data.provider)
  \o ",\n  \"apiKey\": " \o Quote(data.apiKey) \o "\n}"

\* JSON.parse, for the texts considered here: an object whose members are
\* strings, null, or an integer.  The result of a parsing step is the value
\* read and the position after it, or a failure (a SyntaxError).
ParseFail == [ok |-> FALSE, value |-> "", next |-> 0]

JsonSpace == {" ", "\t", "\n"}

RECURSIVE SkipWs(_, _)
SkipWs(s, i) == IF CharAt(s, i) \in JsonSpace THEN SkipWs(s, i + 1) ELSE i

\* What the character after a backslash stands for.
Unescape ==
  [e \in {"\"", "\\", "/", "n", "t"} |->
     CASE e = "n" -> "\n" [] e = "t" -> "\t" [] OTHER -> e]

RECURSIVE StringBody(_, _, _)
\* The characters of a string after its opening quote, up to the closing one.
StringBody(s, i, acc) ==
  LET c == CharAt(s, i)
  IN  IF c = "" \/ c \in {"\n", "\t"} THEN ParseFail
      ELSE IF c = "\"" THEN [ok |-> TRUE, value |-> acc, next |-> i + 1]
      ELSE IF c = "\\"
      THEN LET e == CharAt(s, i + 1)
           IN  IF e \in DOMAIN Unescape
               THEN StringBody(s, i + 2, acc \o Unescape[e])
               ELSE ParseFail
      ELSE StringBody(s, i + 1, acc \o c)

ParseString(s, i) == IF CharAt(s, i) = "\"" THEN StringBody(s, i + 1, "") ELSE ParseFail

RECURSIVE Members(_, _, _)
\* The members of an object from position i on, added to fields; a repeated
\* name keeps its last value.
Members(s, i, fields) ==
  LET k == ParseString(s, SkipWs(s, i))
      c == SkipWs(s, k.next)
      v == ParseString(s, SkipWs(s, c + 1))
      n == SkipWs(s, v.next)
      fs == (k.value :> v.value) @@ fields
  IN  IF ~k.ok \/ CharAt(s, c) # ":" THEN ParseFail
      ELSE IF ~v.ok THEN ParseFail
      ELSE IF CharAt(s, n) = "," THEN Members(s, n + 1, fs)
      ELSE IF CharAt(s, n) = "}" THEN [ok |-> TRUE, value |-> fs, next |-> n + 1]
      ELSE ParseFail

Digits == {"0", "1", "2", "3", "4", "5", "6", "7", "8", "9"}

RECURSIVE SkipDigits(_, _)
SkipDigits(s, i) == IF CharAt(s, i) \in Digits THEN SkipDigits(s, i + 1) ELSE i

\* The value at position i of the text.
ParseValue(s, i) ==
  LET c == CharAt(s, i)
  IN  IF c = "{"
      THEN LET j == SkipWs(s, i + 1)
               m == IF CharAt(s, j) = "}"
                    THEN [ok |-> TRUE, value |-> [x \in {} |-> ""], next |-> j + 1]
                    ELSE Members(s, i + 1, [x \in {} |-> ""])
           IN  IF m.ok
               THEN [ok |-> TRUE, value |-> m.value @@ EmptyRecord, next |-> m.next]
               ELSE ParseFail
      ELSE IF SubSeq(s, i, i + 3) = "null" /\ i + 3 <= Len(s)
      THEN [ok |-> TRUE, value |-> ConfigNull, next |-> i + 4]
      ELSE IF c \in Digits
      THEN [ok |-> TRUE, value |-> ConfigScalar, next |-> SkipDigits(s, i)]
      ELSE ParseFail

\* JSON.parse(text): one value, with nothing but white space around it.
JSONparse(text) ==
  LET v == ParseValue(text, SkipWs(text, 1))
  IN  IF v.ok /\ SkipWs(text, v.next) > Len(text) THEN v ELSE ParseFail

\* An absent file skips the read, a corrupt one throws inside the try; a
\* file given by its text is parsed.
loadConfig(file) ==
  IF file.kind = "json" THEN file.value
  ELSE IF file.kind = "text"
  THEN LET parsed == JSONparse(file.text)
       IN  IF parsed.ok THEN parsed.value ELSE EmptyRecord
  ELSE EmptyRecord

\* saveConfig(data): the file holds the text JSON.stringify wrote.
saveConfig(data) == [kind |-> "text", text |-> JSONstringify(data)]

\* Results of git branch --show-current while the repository is on head.
BranchResults == {GitResult(TRUE, head, ""), GitResult(FALSE, "", "fatal: error")}

\* ---------------------------------------------------------------------------
\* run(): repository check, branch, status, staging
\* ---------------------------------------------------------------------------
\* run(), lines 469-482 up to the call of switchBranch.
RunStart ==
  /\ pc = "run"
  /\ \E repo \in GitResults({".git"}), cur \in BranchResults :
       /\ gitLog' = Logged(<<"rev-parse", "--git-dir">>, repo)
       /\ IF ~isGitRepo(repo)
          THEN /\ Exit(1, "not_repo")
               /\ UNCHANGED branch
          ELSE /\ branch' = getCurrentBranch(cur)
               /\ pc' = IF Truthy(opts.branch) /\ opts.branch # getCurrentBranch(cur)
                        THEN "switchBranch" ELSE "status"
               /\ UNCHANGED <<exitCode, printed>>
  /\ UNCHANGED <<cliVars, aiOut, opts, cfgFile, sdkInstalled, head, status, config, diff, message,
                 aiMsg, r, pushRet, aiCalls, installs, regens, manualPrompts,
                 generateAns, pushAns>>

\* switchBranch(name): git checkout name.
SwitchBranchCheckout ==
  /\ pc = "switchBranch"
  /\ \E res \in GitResults({""}) :
       /\ gitLog' = Logged(<<"checkout", opts.branch>>, res)
       /\ IF res.ok
          THEN /\ branch' = opts.branch
               /\ head' = opts.branch
               /\ pc' = "status"
          ELSE /\ pc' = "switchBranch_create"
               /\ UNCHANGED <<branch, head>>
  /\ UNCHANGED <<cliVars, aiOut, opts, cfgFile, sdkInstalled, status, config, diff, message,
                 aiMsg, r, exitCode, pushRet, printed, aiCalls, installs, regens,
                 manualPrompts, generateAns, pushAns>>

\* switchBranch(name): git checkout -b name, else getCurrentBranch().
SwitchBranchCreate ==
  /\ pc = "switchBranch_create"
  /\ \E res \in GitResults({""}), cur \in BranchResults :
       /\ gitLog' = Logged(<<"checkout", "-b", opts.branch>>, res)
       /\ IF res.ok
          THEN /\ branch' = opts.branch
               /\ head' = opts.branch
               /\ UNCHANGED printed
          ELSE /\ branch' = getCurrentBranch(cur)
               /\ printed' = printed \cup {"switch_failed"}
               /\ UNCHANGED head
  /\ pc' = "status"
  /\ UNCHANGED <<cliVars, aiOut, opts, cfgFile, sdkInstalled, status, config, diff, message,
                 aiMsg, r, exitCode, pushRet, aiCalls, installs, regens, manualPrompts,
                 generateAns, pushAns>>

\* Mutant: the clean-tree check is missing and the run goes on to staging.
RunStatus_NoCleanCheck ==
  /\ pc = "status"
  /\ \E res \in GitResults(StatusOutputs) :
       /\ status' = getStatus(res)
       /\ pc' = "stage"
       /\ UNCHANGED <<exitCode, printed>>
  /\ UNCHANGED <<cliVars, aiOut, opts, cfgFile, sdkInstalled, head, branch, config, diff,
                 message, aiMsg, r, gitLog, pushRet, aiCalls, installs, regens,
                 manualPrompts, generateAns, pushAns>>

\* run(), lines 484-490: a clean tree ends the run with status 0.
RunStatus ==
  /\ pc = "status"
  /\ \E res \in GitResults(StatusOutputs) :
       /\ status' = getStatus(res)
       /\ IF getStatus(res) = ""
          THEN Exit(0, "nothing_to_commit")
          ELSE /\ pc' = "stage"
               /\ UNCHANGED <<exitCode, printed>>
  /\ UNCHANGED <<cliVars, aiOut, opts, cfgFile, sdkInstalled, head, branch, config, diff,
                 message, aiMsg, r, gitLog, pushRet, aiCalls, installs, regens,
                 manualPrompts, generateAns, pushAns>>

\* Mutant: the result of git add is not checked.
RunStage_IgnoresAddFailure ==
  /\ pc = "stage"
  /\ \E line \in FilesLines, res \in GitResults({""}),
        staged \in GitResults(DiffOutputs), unstaged \in GitResults(DiffOutputs) :
       LET filesInput == prompt(line)
           files == IF filesInput # "" THEN filesInput ELSE "."
           addArgs == IF files = "." THEN <<".">> ELSE Split(files)
       IN  /\ gitLog' = Logged(<<"add">> \o addArgs, res)
           /\ config' = loadConfig(cfgFile)
           /\ diff' = getDiff(staged, unstaged)
           /\ pc' = "getCommitMessage"
           /\ UNCHANGED <<exitCode, printed>>
  /\ UNCHANGED <<cliVars, aiOut, opts, cfgFile, sdkInstalled, head, branch, status, message, aiMsg, r,
                 pushRet, aiCalls, installs, regens, manualPrompts,
                 generateAns, pushAns>>

\* run(), lines 493-505: prompt for files, git add, loadConfig, getDiff.
RunStage ==
  /\ pc = "stage"
  /\ \E line \in FilesLines, res \in GitResults({""}),
        staged \in GitResults(DiffOutputs), unstaged \in GitResults(DiffOutputs) :
       LET filesInput == prompt(line)
           files == IF filesInput # "" THEN filesInput ELSE "."
           addArgs == IF files = "." THEN <<".">> ELSE Split(files)
       IN  /\ gitLog' = Logged(<<"add">> \o addArgs, res)
           /\ IF ~res.ok
              THEN /\ Exit(1, "stage_failed")
                   /\ UNCHANGED <<config, diff>>
              ELSE /\ config' = loadConfig(cfgFile)
                   /\ diff' = getDiff(staged, unstaged)
                   /\ pc' = "getCommitMessage"
                   /\ UNCHANGED <<exitCode, printed>>
  /\ UNCHANGED <<cliVars, aiOut, opts, cfgFile, sdkInstalled, head, branch, status, message, aiMsg, r,
                 pushRet, aiCalls, installs, regens, manualPrompts,
                 generateAns, pushAns>>


\* ---------------------------------------------------------------------------
\* getCommitMessage(config, diff, noAi)
\* ---------------------------------------------------------------------------
\* Mutant: --no-ai is not consulted.
useAi_IgnoresNoAi(cfg, noAi) == Truthy(cfg.apiKey) /\ Truthy(cfg.provider)

\* const useAi = config.apiKey && config.provider && !noAi
useAi(cfg, noAi) == Truthy(cfg.apiKey) /\ Truthy(cfg.provider) /\ ~noAi

\* Mutant: the rate-limit group is tried before the other two.
handleAiError_RateFirst(errorMessage) ==
  LET msg == ToLowerCase(errorMessage)
  IN  IF Includes(msg, "rate") \/ Includes(msg, "429")
      THEN "rate_limited"
      ELSE IF Includes(msg, "credit") \/ Includes(msg, "quota") \/ Includes(msg, "insufficient")
      THEN "credits"
      ELSE IF Includes(msg, "invalid") \/ Includes(msg, "auth") \/ Includes(msg, "401")
      THEN "invalid_key"
      ELSE "unknown"

\* The class handleAiError reports for an error message.
handleAiError(errorMessage) ==
  LET msg == ToLowerCase(errorMessage)
  IN  IF Includes(msg, "credit") \/ Includes(msg, "quota") \/ Includes(msg, "insufficient")
      THEN "credits"
      ELSE IF Includes(msg, "invalid") \/ Includes(msg, "auth") \/ Includes(msg, "401")
      THEN "invalid_key"
      ELSE IF Includes(msg, "rate") \/ Includes(msg, "429")
      THEN "rate_limited"
      ELSE "unknown"

\* Everything handleAiError(provider, error) prints: the line of the class,
\* and for exhausted credits the provider's billing page and the --no-ai hint.
AiErrorOutput(provider, errorMessage) ==
  LET class == handleAiError(errorMessage)
  IN  {"ai_" \o class}
      \cup (IF class = "credits"
            THEN {"hint_no_ai"}
                 \cup (IF provider = "anthropic" THEN {"billing_anthropic"} ELSE {})
                 \cup (IF provider = "openai" THEN {"billing_openai"} ELSE {})
            ELSE {})

\* Outcomes of callAI(provider, apiKey, prompt) when the SDK is present or
\* not: value is the returned text or the thrown error's message, npm tells
\* whether ensureAiPackage ran npm install, installed what it left behind.
callAI(provider, installed) ==
  IF provider \notin PROVIDERS
  THEN {[threw |-> TRUE, npm |-> FALSE, installed |-> installed,
         value |-> "Cannot read properties of undefined (reading 'replace')"]}
  ELSE (IF installed THEN {}
        ELSE {[threw |-> TRUE, npm |-> TRUE, installed |-> FALSE,
               value |-> "Failed to install " \o AI_PACKAGES[provider] \o ":\nnpm ERR!"]})
       \cup {[threw |-> FALSE, npm |-> ~installed, installed |-> TRUE,
              value |-> Trim(t)] : t \in AiTexts}
       \cup {[threw |-> TRUE, npm |-> ~installed, installed |-> TRUE,
              value |-> e] : e \in AiErrorMessages}

\* Mutant: an empty message is not rejected.
ReturnMessage_NoEmptyCheck(msg) ==
  /\ message' = IF msg # "" THEN msg ELSE Null
  /\ pc' = "commit"
  /\ UNCHANGED <<exitCode, printed>>

\* getCommitMessage returned msg || null to run(), lines 506-510.
ReturnMessage(msg) ==
  /\ message' = IF msg # "" THEN msg ELSE Null
  /\ IF msg = ""
     THEN Exit(1, "empty_message")
     ELSE /\ pc' = "commit"
          /\ UNCHANGED <<exitCode, printed>>

\* Lines 418-424: choose between the manual and the AI path.  A config that
\* parsed to null makes config.apiKey throw, and the entry's catch exits 1.
GetCommitMessage ==
  /\ pc = "getCommitMessage"
  /\ IF config.type = "null"
     THEN Exit(1, "unexpected_error")
     ELSE IF useAi(config, opts.noAi)
     THEN /\ pc' = "generate"
          /\ UNCHANGED <<exitCode, printed>>
     ELSE /\ pc' = "manual"
          /\ printed' = IF opts.noAi THEN printed ELSE printed \cup {"ai_not_configured"}
          /\ UNCHANGED exitCode
  /\ UNCHANGED <<cliVars, aiOut, opts, cfgFile, sdkInstalled, head, branch, status, config, diff,
                 message, aiMsg, r, gitLog, pushRet, aiCalls, installs, regens,
                 manualPrompts, generateAns, pushAns>>

\* Lines 426-436: "Generate commit message with AI?" and the empty-diff check.
GcmGenerate ==
  /\ pc = "generate"
  /\ \E line \in GenerateLines :
       LET generate == prompt(line)
       IN  /\ generateAns' = generate
           /\ IF generate # "" /\ ToLowerCase(generate) # "y"
              THEN /\ pc' = "manual"
                   /\ UNCHANGED printed
              ELSE IF diff = ""
              THEN /\ pc' = "manual"
                   /\ printed' = printed \cup {"nothing_staged"}
              ELSE /\ pc' = "callAI"
                   /\ UNCHANGED printed
  /\ UNCHANGED <<cliVars, aiOut, opts, cfgFile, sdkInstalled, head, branch, status, config, diff,
                 message, aiMsg, r, gitLog, exitCode, pushRet, aiCalls,
                 installs, regens, manualPrompts, pushAns>>

\* Mutant: the try/catch around the provider call is missing, so a failure
\* reaches the entry's catch.
GcmCallAI_NoCatch ==
  /\ pc = "callAI"
  /\ \E out \in callAI(config.provider, sdkInstalled) :
       /\ aiCalls' = aiCalls + 1
       /\ installs' = IF out.npm THEN installs + 1 ELSE installs
       /\ sdkInstalled' = out.installed
       /\ aiOut' = [threw |-> out.threw, value |-> out.value]
       /\ IF ~out.threw /\ out.value # ""
          THEN /\ aiMsg' = out.value
               /\ pc' = "choice"
               /\ UNCHANGED <<printed, exitCode>>
          ELSE /\ Exit(1, "unexpected_error")
               /\ UNCHANGED aiMsg
  /\ UNCHANGED <<cliVars, opts, cfgFile, head, branch, status, config, diff, message, r, gitLog,
                 pushRet, regens, manualPrompts, generateAns, pushAns>>

\* Lines 443-448 and 456-458: one iteration's call of the provider; an
\* empty text or a thrown error is reported and leads to the manual prompt.
GcmCallAI ==
  /\ pc = "callAI"
  /\ \E out \in callAI(config.provider, sdkInstalled) :
       /\ aiCalls' = aiCalls + 1
       /\ installs' = IF out.npm THEN installs + 1 ELSE installs
       /\ sdkInstalled' = out.installed
       /\ aiOut' = [threw |-> out.threw, value |-> out.value]
       /\ IF ~out.threw /\ out.value # ""
          THEN /\ aiMsg' = out.value
               /\ pc' = "choice"
               /\ UNCHANGED printed
          ELSE /\ pc' = "manual"
               /\ printed' = printed \cup
                    AiErrorOutput(config.provider,
                                  IF out.threw THEN out.value
                                  ELSE "Empty response from AI")
               /\ UNCHANGED aiMsg
  /\ UNCHANGED <<cliVars, opts, cfgFile, head, branch, status, config, diff, message, r, gitLog,
                 exitCode, pushRet, regens, manualPrompts, generateAns, pushAns>>

\* Mutant: every answer other than "y" calls the provider again.
GcmChoice_AlwaysRegenerates ==
  /\ pc = "choice"
  /\ \E line \in ChoiceLines :
       LET answer == ToLowerCase(prompt(line))
           choice == IF answer # "" THEN answer ELSE "y"
       IN  IF choice = "y"
           THEN /\ ReturnMessage(aiMsg)
                /\ UNCHANGED regens
           ELSE /\ aiCalls <= MaxRegen
                /\ regens' = IF choice = "r" THEN regens + 1 ELSE regens
                /\ pc' = "callAI"
                /\ UNCHANGED <<message, exitCode, printed>>
  /\ UNCHANGED <<cliVars, aiOut, opts, cfgFile, sdkInstalled, head, branch, status, config, diff, aiMsg,
                 r, gitLog, pushRet, aiCalls, installs, manualPrompts,
                 generateAns, pushAns>>

\* Lines 450-455: "Use this? (y / r=regenerate / m=manual)".
GcmChoice ==
  /\ pc = "choice"
  /\ \E line \in ChoiceLines :
       LET answer == ToLowerCase(prompt(line))
           choice == IF answer # "" THEN answer ELSE "y"
       IN  IF choice = "y"
           THEN /\ ReturnMessage(aiMsg)
                /\ UNCHANGED regens
           ELSE IF choice = "r"
           THEN /\ regens < MaxRegen
                /\ regens' = regens + 1
                /\ pc' = "callAI"
                /\ UNCHANGED <<message, exitCode, printed>>
           ELSE /\ pc' = "manual"
                /\ UNCHANGED <<regens, message, exitCode, printed>>
  /\ UNCHANGED <<cliVars, aiOut, opts, cfgFile, sdkInstalled, head, branch, status, config, diff, aiMsg,
                 r, gitLog, pushRet, aiCalls, installs, manualPrompts,
                 generateAns, pushAns>>

\* The "Commit message: " prompt of lines 422, 428, 434, 454 and 459.
GcmManual ==
  /\ pc = "manual"
  /\ \E line \in MessageLines :
       /\ manualPrompts' = manualPrompts + 1
       /\ ReturnMessage(prompt(line))
  /\ UNCHANGED <<cliVars, aiOut, opts, cfgFile, sdkInstalled, head, branch, status, config, diff, aiMsg,
                 r, gitLog, pushRet, aiCalls, installs, regens, generateAns,
                 pushAns>>

\* ---------------------------------------------------------------------------
\* run(): commit and the push question
\* ---------------------------------------------------------------------------
\* run() returned normally: header("Done!"), and the process ends with 0.
RunReturn(tags) ==
  /\ pc' = "exited"
  /\ exitCode' = 0
  /\ printed' = printed \cup tags \cup {"done"}

\* Mutant: --no-push is not consulted after the commit.
RunCommit_IgnoresNoPush ==
  /\ pc = "commit"
  /\ \E res \in GitResults({""}) :
       /\ gitLog' = Logged(<<"commit", "-m", message>>, res)
       /\ IF ~res.ok
          THEN Exit(1, "commit_failed")
          ELSE /\ pc' = "push_prompt"
               /\ printed' = printed \cup {"committed"}
               /\ UNCHANGED exitCode
  /\ UNCHANGED <<cliVars, aiOut, opts, cfgFile, sdkInstalled, head, branch, status, config, diff,
                 message, aiMsg, r, pushRet, aiCalls, installs, regens,
                 manualPrompts, generateAns, pushAns>>

\* Lines 513-525: git commit, then the --no-push early return.
RunCommit ==
  /\ pc = "commit"
  /\ \E res \in GitResults({""}) :
       /\ gitLog' = Logged(<<"commit", "-m", message>>, res)
       /\ IF ~res.ok
          THEN Exit(1, "commit_failed")
          ELSE IF opts.noPush
          THEN RunReturn({"committed", "skip_push"})
          ELSE /\ pc' = "push_prompt"
               /\ printed' = printed \cup {"committed"}
               /\ UNCHANGED exitCode
  /\ UNCHANGED <<cliVars, aiOut, opts, cfgFile, sdkInstalled, head, branch, status, config, diff,
                 message, aiMsg, r, pushRet, aiCalls, installs, regens,
                 manualPrompts, generateAns, pushAns>>

\* Line 527: "Push to remote? (y/n) [y]".
RunPushPrompt ==
  /\ pc = "push_prompt"
  /\ \E line \in PushLines :
       LET answer == prompt(line)
           doPush == ToLowerCase(IF answer # "" THEN answer ELSE "y") = "y"
       IN  /\ pushAns' = answer
           /\ IF doPush
              THEN /\ pc' = "push"
                   /\ UNCHANGED <<exitCode, printed>>
              ELSE RunReturn({})
  /\ UNCHANGED <<cliVars, aiOut, opts, cfgFile, sdkInstalled, head, branch, status, config, diff,
                 message, aiMsg, r, gitLog, pushRet, aiCalls, installs, regens,
                 manualPrompts, generateAns>>


\* ---------------------------------------------------------------------------
\* push(branch, forcePush)
\* ---------------------------------------------------------------------------
\* Line 218: the no-upstream test on the failed push's stderr.
IsNoUpstream(stderr) ==
  Includes(stderr, "no upstream") \/ Includes(stderr, "has no upstream")

\* Lines 226-227: the rejection test.
IsRejected(stderr) ==
  LET lower == ToLowerCase(stderr)
  IN  \E k \in {"fetch first", "non-fast-forward", "rejected"} : Includes(lower, k)

\* Mutant: the rejection test is made before the no-upstream test.
PushFailureStep_RejectedFirst(stderr) ==
  IF IsRejected(stderr) THEN "push_rebase"
  ELSE IF IsNoUpstream(stderr) THEN "push_upstream"
  ELSE "push_failed"

\* Lines 218-247: what push() does after a failed plain push.
PushFailureStep(stderr) ==
  IF IsNoUpstream(stderr) THEN "push_upstream"
  ELSE IF IsRejected(stderr) THEN "push_rebase"
  ELSE "push_failed"

\* push() returned ret into run() line 528, which goes on to line 530.
PushReturn(ret, tags) ==
  /\ pushRet' = <<ret>>
  /\ RunReturn(tags)

\* Mutant: a failed forced push falls through to the plain push.
PushForce_FallsThrough ==
  /\ pc = "push"
  /\ opts.forcePush
  /\ \E res \in PushResults :
       /\ r' = res
       /\ gitLog' = Logged(<<"push", "--force", "origin", branch>>, res)
       /\ IF res.ok
          THEN PushReturn(TRUE, {"force_pushed"})
          ELSE /\ pc' = "push_retry"
               /\ UNCHANGED <<pushRet, exitCode, printed>>
  /\ UNCHANGED <<cliVars, aiOut, opts, cfgFile, sdkInstalled, head, branch, status, config, diff,
                 message, aiMsg, aiCalls, installs, regens, manualPrompts,
                 generateAns, pushAns>>

\* Lines 206-211: the forced push.
PushForce ==
  /\ pc = "push"
  /\ opts.forcePush
  /\ \E res \in PushResults :
       /\ r' = res
       /\ gitLog' = Logged(<<"push", "--force", "origin", branch>>, res)
       /\ PushReturn(res.ok, IF res.ok THEN {"force_pushed"} ELSE {"force_failed"})
  /\ UNCHANGED <<cliVars, aiOut, opts, cfgFile, sdkInstalled, head, branch, status, config, diff,
                 message, aiMsg, aiCalls, installs, regens, manualPrompts,
                 generateAns, pushAns>>

\* Lines 213-229 and 247: the plain push and the classification of its failure.
PushPlain ==
  /\ pc = "push"
  /\ ~opts.forcePush
  /\ \E res \in PushResults :
       /\ r' = res
       /\ gitLog' = Logged(<<"push", "origin", branch>>, res)
       /\ IF res.ok
          THEN PushReturn(TRUE, {"pushed"})
          ELSE IF PushFailureStep(res.stderr) = "push_failed"
          THEN PushReturn(FALSE, {"push_failed"})
          ELSE /\ pc' = PushFailureStep(res.stderr)
               /\ UNCHANGED <<pushRet, exitCode, printed>>
  /\ UNCHANGED <<cliVars, aiOut, opts, cfgFile, sdkInstalled, head, branch, status, config, diff,
                 message, aiMsg, aiCalls, installs, regens, manualPrompts,
                 generateAns, pushAns>>

\* Mutant: a failed push --set-upstream is classified and remediated again.
PushSetUpstream_Reclassifies ==
  /\ pc = "push_upstream"
  /\ \E res \in PushResults :
       /\ r' = res
       /\ gitLog' = Logged(<<"push", "--set-upstream", "origin", branch>>, res)
       /\ IF res.ok
          THEN PushReturn(TRUE, {"upstream_set"})
          ELSE IF IsRejected(res.stderr)
          THEN /\ pc' = "push_rebase"
               /\ UNCHANGED <<pushRet, exitCode, printed>>
          ELSE PushReturn(FALSE, {"upstream_failed"})
  /\ UNCHANGED <<cliVars, aiOut, opts, cfgFile, sdkInstalled, head, branch, status, config, diff,
                 message, aiMsg, aiCalls, installs, regens, manualPrompts,
                 generateAns, pushAns>>

\* Lines 219-222: push --set-upstream, terminal either way.
PushSetUpstream ==
  /\ pc = "push_upstream"
  /\ \E res \in PushResults :
       /\ r' = res
       /\ gitLog' = Logged(<<"push", "--set-upstream", "origin", branch>>, res)
       /\ PushReturn(res.ok, IF res.ok THEN {"upstream_set"} ELSE {"upstream_failed"})
  /\ UNCHANGED <<cliVars, aiOut, opts, cfgFile, sdkInstalled, head, branch, status, config, diff,
                 message, aiMsg, aiCalls, installs, regens, manualPrompts,
                 generateAns, pushAns>>

\* Mutant: the push is retried whether or not the rebase succeeded.
PushPullRebase_RetriesAnyway ==
  /\ pc = "push_rebase"
  /\ \E rebase \in GitResults({""}) :
       /\ gitLog' = Logged(<<"pull", "--rebase", "origin", branch>>, rebase)
       /\ pc' = "push_retry"
       /\ UNCHANGED <<pushRet, exitCode, printed>>
  /\ UNCHANGED <<cliVars, aiOut, opts, cfgFile, sdkInstalled, head, branch, status, config, diff,
                 message, aiMsg, r, aiCalls, installs, regens, manualPrompts,
                 generateAns, pushAns>>

\* Lines 230-241: pull --rebase; a failed rebase ends push().
PushPullRebase ==
  /\ pc = "push_rebase"
  /\ \E rebase \in GitResults({""}) :
       /\ gitLog' = Logged(<<"pull", "--rebase", "origin", branch>>, rebase)
       /\ IF ~rebase.ok
          THEN PushReturn(FALSE, {"rebase_failed"})
          ELSE /\ pc' = "push_retry"
               /\ UNCHANGED <<pushRet, exitCode, printed>>
  /\ UNCHANGED <<cliVars, aiOut, opts, cfgFile, sdkInstalled, head, branch, status, config, diff,
                 message, aiMsg, r, aiCalls, installs, regens, manualPrompts,
                 generateAns, pushAns>>

\* Mutant: a failure of the push after the rebase is classified again.
PushAfterRebase_Reclassifies ==
  /\ pc = "push_retry"
  /\ \E res \in PushResults :
       /\ r' = res
       /\ gitLog' = Logged(<<"push", "origin", branch>>, res)
       /\ IF res.ok
          THEN PushReturn(TRUE, {"pushed_after_rebase"})
          ELSE IF PushFailureStep(res.stderr) = "push_failed" \/ Len(gitLog) > 8
          THEN PushReturn(FALSE, {"push_after_rebase_failed"})
          ELSE /\ pc' = PushFailureStep(res.stderr)
               /\ UNCHANGED <<pushRet, exitCode, printed>>
  /\ UNCHANGED <<cliVars, aiOut, opts, cfgFile, sdkInstalled, head, branch, status, config, diff,
                 message, aiMsg, aiCalls, installs, regens, manualPrompts,
                 generateAns, pushAns>>

\* Lines 242-244: the push after a successful rebase, terminal either way.
PushAfterRebase ==
  /\ pc = "push_retry"
  /\ \E res \in PushResults :
       /\ r' = res
       /\ gitLog' = Logged(<<"push", "origin", branch>>, res)
       /\ PushReturn(res.ok, IF res.ok THEN {"pushed_after_rebase"}
                             ELSE {"push_after_rebase_failed"})
  /\ UNCHANGED <<cliVars, aiOut, opts, cfgFile, sdkInstalled, head, branch, status, config, diff,
                 message, aiMsg, aiCalls, installs, regens, manualPrompts,
                 generateAns, pushAns>>

\* ---------------------------------------------------------------------------
\* Specification
\* ---------------------------------------------------------------------------
Next ==
  \/ RunStart
  \/ SwitchBranchCheckout
  \/ SwitchBranchCreate
  \/ RunStatus
  \/ RunStage
  \/ GetCommitMessage
  \/ GcmGenerate
  \/ GcmCallAI
  \/ GcmChoice
  \/ GcmManual
  \/ RunCommit
  \/ RunPushPrompt
  \/ PushForce
  \/ PushPlain
  \/ PushSetUpstream
  \/ PushPullRebase
  \/ PushAfterRebase

Spec == Init /\ [][Next]_vars

\* ---------------------------------------------------------------------------
\* handleAiError on its own
\* ---------------------------------------------------------------------------
\* Words an error message of a provider SDK is made of: the eight keywords
\* of handleAiError in several spellings, and words that hold none of them.
ErrorWords ==
  {"credit", "Quota", "INSUFFICIENT", "invalid", "Auth", "401", "RATE", "429",
   "ECONNRESET", "timeout", ""}

\* error.message of the error caught at line 456.
ErrorMessages ==
  {a \o " " \o b : a \in ErrorWords, b \in ErrorWords}
  \cup AiErrorMessages
  \cup {"Your credit balance is too low", "insufficient_quota",
        "Unauthorized", "generate", "4 0 1", "42 9"}

\* The catch block of line 456 is entered with an error thrown by callAI.
InitAiError ==
  /\ pc = "handleAiError"
  /\ opts = DefaultOpts
  /\ argv = ArgvFor(opts)
  /\ welcomed = TRUE
  /\ setupProvider = Undefined
  /\ setupKey = Undefined
  /\ \E m \in ErrorMessages : aiOut = [threw |-> TRUE, value |-> m]
  /\ \E p \in PROVIDERS :
       /\ cfgFile = [kind |-> "json", value |-> ConfigObject(p, "sk-test")]
       /\ config = ConfigObject(p, "sk-test")
  /\ sdkInstalled = TRUE
  /\ head = "main"
  /\ branch = "main"
  /\ status = " M a.txt"
  /\ diff = "diff --git a/a.txt b/a.txt"
  /\ message = Undefined
  /\ aiMsg = ""
  /\ r = GitResult(TRUE, "", "")
  /\ gitLog = <<>>
  /\ exitCode = Running
  /\ pushRet = NotReturned
  /\ printed = {}
  /\ aiCalls = 1
  /\ installs = 0
  /\ regens = 0
  /\ manualPrompts = 0
  /\ generateAns = NotAsked
  /\ pushAns = NotAsked

\* Line 457: handleAiError(config.provider, e) reports the error.
HandleAiError ==
  /\ pc = "handleAiError"
  /\ printed' = printed \cup AiErrorOutput(config.provider, aiOut.value)
  /\ pc' = "handled"
  /\ UNCHANGED <<cliVars, aiOut, opts, cfgFile, sdkInstalled, head, branch, status,
                 config, diff, message, aiMsg, r, gitLog, exitCode, pushRet,
                 aiCalls, installs, regens, manualPrompts, generateAns, pushAns>>

NextAiError == HandleAiError

SpecAiError == InitAiError /\ [][NextAiError]_vars

\* ---------------------------------------------------------------------------
\* The command line: parseArgs and the entry point
\* ---------------------------------------------------------------------------
VALID_ARGS ==
  {"-v", "--version", "-h", "--help", "setup", "upgrade", "uninstall",
   "--no-push", "--no-ai", "--force-push", "--branch", "-b"}

\* Mutant: --no-ai has no break and falls through to --force-push.
SetOption_MissingBreak(o, a) ==
  CASE a \in {"-v", "--version"} -> [o EXCEPT !.version = TRUE]
    [] a \in {"-h", "--help"} -> [o EXCEPT !.help = TRUE]
    [] a = "setup" -> [o EXCEPT !.setup = TRUE]
    [] a = "upgrade" -> [o EXCEPT !.upgrade = TRUE]
    [] a = "uninstall" -> [o EXCEPT !.uninstall = TRUE]
    [] a = "--no-push" -> [o EXCEPT !.noPush = TRUE]
    [] a = "--no-ai" -> [o EXCEPT !.noAi = TRUE, !.forcePush = TRUE]
    [] a = "--force-push" -> [o EXCEPT !.forcePush = TRUE]

\* The cases of the switch that set one boolean option (lines 563-570).
SetOption(o, a) ==
  CASE a \in {"-v", "--version"} -> [o EXCEPT !.version = TRUE]
    [] a \in {"-h", "--help"} -> [o EXCEPT !.help = TRUE]
    [] a = "setup" -> [o EXCEPT !.setup = TRUE]
    [] a = "upgrade" -> [o EXCEPT !.upgrade = TRUE]
    [] a = "uninstall" -> [o EXCEPT !.uninstall = TRUE]
    [] a = "--no-push" -> [o EXCEPT !.noPush = TRUE]
    [] a = "--no-ai" -> [o EXCEPT !.noAi = TRUE]
    [] a = "--force-push" -> [o EXCEPT !.forcePush = TRUE]

RECURSIVE ParseFrom(_, _, _)
\* The while loop of parseArgs from index i on (1-based), with the options
\* set so far: the result is the options, or the process exit of line 559
\* or 575 with what was printed.
ParseFrom(args, i, o) ==
  IF i > Len(args) THEN [exit |-> FALSE, tag |-> "", opts |-> o]
  ELSE
    LET a == ToLowerCase(args[i])
    IN  IF a \notin VALID_ARGS
        THEN [exit |-> TRUE, tag |-> "unknown_argument", opts |-> o]
        ELSE IF a \in {"--branch", "-b"}
        THEN IF i + 1 > Len(args)
             THEN [exit |-> TRUE, tag |-> "branch_requires_name", opts |-> o]
             ELSE ParseFrom(args, i + 2, [o EXCEPT !.branch = args[i + 1]])
        ELSE ParseFrom(args, i + 1, SetOption(o, a))

\* Mutant: tokens outside VALID_ARGS are dropped instead of being fatal.
parseArgs_SkipsUnknown(cmdline) ==
  ParseFrom(SelectSeq(SubSeq(cmdline, 3, Len(cmdline)),
                      LAMBDA t : ToLowerCase(t) \in VALID_ARGS), 1, DefaultOpts)

\* parseArgs(process.argv): argv.slice(2) is parsed from its first token.
parseArgs(cmdline) == ParseFrom(SubSeq(cmdline, 3, Len(cmdline)), 1, DefaultOpts)

\* Largest number of tokens after "node gtxr" on a command line.
MaxArgs == 3

\* Tokens of a command line: the twelve recognized ones, two of them in
\* another case, and two that are not recognized.
ArgTokens == VALID_ARGS \cup {"--NO-PUSH", "-B", "foo", "feat"}

ArgLists == UNION {[1..n -> ArgTokens] : n \in 0..MaxArgs}

\* Answers to "Are you sure? (y/N)", to the provider question and to the API
\* key question of setup, as typed.
ConfirmLines == {"y", " Y ", "n", ""}
ProviderLines == {"OpenAI", " gemini ", "anthropic", "palm", ""}
KeyLines == {"", "  ", "sk-test", "sk-\"q\"\\x"}

\* How cmdUpgrade can end: the registry answers with this version or with
\* another one and npm install then succeeds or fails, or the request fails.
UpgradeOutcomes ==
  {"up_to_date", "upgraded", "upgrade_failed", "upgrade_error"}

\* Lines 588-598: parseArgs, then the dispatch on the options up to the
\* first question a subcommand asks; firstRunCheck (lines 268-290) prints
\* the banner and writes the marker when the marker is absent.
Entry ==
  /\ pc = "entry"
  /\ LET parsed == parseArgs(argv)
         o == parsed.opts
     IN  IF parsed.exit
         THEN /\ Exit(1, parsed.tag)
              /\ UNCHANGED <<opts, welcomed>>
         ELSE /\ opts' = o
              /\ IF o.help THEN Exit(0, "help") /\ UNCHANGED welcomed
                 ELSE IF o.version THEN Exit(0, "version") /\ UNCHANGED welcomed
                 ELSE IF o.upgrade
                 THEN pc' = "upgrade" /\ UNCHANGED <<exitCode, printed, welcomed>>
                 ELSE IF o.uninstall
                 THEN pc' = "uninstall" /\ UNCHANGED <<exitCode, printed, welcomed>>
                 ELSE /\ welcomed' = TRUE
                      /\ printed' = IF welcomed THEN printed ELSE printed \cup {"welcome"}
                      /\ pc' = IF o.setup THEN "setupProvider" ELSE "run"
                      /\ UNCHANGED exitCode
  /\ UNCHANGED <<argv, setupProvider, setupKey, aiOut, cfgFile, sdkInstalled, head,
                 branch, status, config, diff, message, aiMsg, r, gitLog, pushRet,
                 aiCalls, installs, regens, manualPrompts, generateAns, pushAns>>

\* cmdUpgrade (lines 328-365) and the exit of line 593.
CmdUpgrade ==
  /\ pc = "upgrade"
  /\ \E outcome \in UpgradeOutcomes : Exit(0, outcome)
  /\ UNCHANGED <<cliVars, aiOut, opts, cfgFile, sdkInstalled, head, branch, status,
                 config, diff, message, aiMsg, r, gitLog, pushRet, aiCalls, installs,
                 regens, manualPrompts, generateAns, pushAns>>

\* cmdUninstall (lines 370-395) and the exit of line 594: after a "y" the
\* directory ~/.gtxr goes, with config.json, the welcome marker and the
\* installed SDKs, and npm uninstall succeeds or fails.
CmdUninstall ==
  /\ pc = "uninstall"
  /\ \E line \in ConfirmLines, npmOk \in BOOLEAN :
       IF ToLowerCase(prompt(line)) # "y"
       THEN /\ Exit(0, "uninstall_cancelled")
            /\ UNCHANGED <<cfgFile, welcomed, sdkInstalled>>
       ELSE /\ cfgFile' = [kind |-> "absent", value |-> EmptyRecord]
            /\ welcomed' = FALSE
            /\ sdkInstalled' = FALSE
            /\ Exit(0, IF npmOk THEN "uninstalled" ELSE "npm_uninstall_failed")
  /\ UNCHANGED <<argv, setupProvider, setupKey, aiOut, opts, head, branch, status,
                 config, diff, message, aiMsg, r, gitLog, pushRet, aiCalls, installs,
                 regens, manualPrompts, generateAns, pushAns>>

\* cmdSetup, lines 401-407: the provider question.
CmdSetupProvider ==
  /\ pc = "setupProvider"
  /\ \E line \in ProviderLines :
       LET provider == ToLowerCase(prompt(line))
       IN  /\ setupProvider' = provider
           /\ IF provider \notin PROVIDERS
              THEN Exit(0, "provider_skipped")
              ELSE pc' = "setupKey" /\ UNCHANGED <<exitCode, printed>>
  /\ UNCHANGED <<argv, welcomed, setupKey, aiOut, opts, cfgFile, sdkInstalled, head,
                 branch, status, config, diff, message, aiMsg, r, gitLog, pushRet,
                 aiCalls, installs, regens, manualPrompts, generateAns, pushAns>>

\* Mutant: an empty API key is saved like any other.
CmdSetupKey_SavesEmptyKey ==
  /\ pc = "setupKey"
  /\ \E line \in KeyLines, sdk \in BOOLEAN :
       LET apiKey == prompt(line)
       IN  /\ setupKey' = apiKey
           /\ cfgFile' = saveConfig([provider |-> setupProvider, apiKey |-> apiKey])
           /\ sdkInstalled' = IF setupProvider = loadConfig(cfgFile).provider
                              THEN sdkInstalled ELSE sdk
           /\ Exit(0, "configured")
  /\ UNCHANGED <<argv, welcomed, setupProvider, aiOut, opts, head, branch, status,
                 config, diff, message, aiMsg, r, gitLog, pushRet, aiCalls, installs,
                 regens, manualPrompts, generateAns, pushAns>>

\* cmdSetup, lines 408-411, and the exit of line 598: the API key question
\* and saveConfig.  sdkInstalled tells of the configured provider's SDK, so
\* with another provider it is whatever ~/.gtxr/node_modules holds of that one.
CmdSetupKey ==
  /\ pc = "setupKey"
  /\ \E line \in KeyLines, sdk \in BOOLEAN :
       LET apiKey == prompt(line)
       IN  /\ setupKey' = apiKey
           /\ IF apiKey = ""
              THEN /\ Exit(0, "key_skipped")
                   /\ UNCHANGED <<cfgFile, sdkInstalled>>
              ELSE /\ cfgFile' = saveConfig([provider |-> setupProvider, apiKey |-> apiKey])
                   /\ sdkInstalled' = IF setupProvider = loadConfig(cfgFile).provider
                                      THEN sdkInstalled ELSE sdk
                   /\ Exit(0, "configured")
  /\ UNCHANGED <<argv, welcomed, setupProvider, aiOut, opts, head, branch, status,
                 config, diff, message, aiMsg, r, gitLog, pushRet, aiCalls, installs,
                 regens, manualPrompts, generateAns, pushAns>>

\* A config.json written by hand, with a member setup does not write.
HandWrittenConfig ==
  [kind |-> "text",
   text |-> "{\"provider\":\"openai\", \"apiKey\":\"old\", \"model\":\"gpt-4\"}"]

\* A command line is given and the process starts, for the first time on
\* this machine after a setup.
InitArgs ==
  /\ pc = "entry"
  /\ \E args \in ArgLists : argv = <<"node", "gtxr">> \o args
  /\ opts = DefaultOpts
  /\ welcomed = FALSE
  /\ setupProvider = Undefined
  /\ setupKey = Undefined
  /\ aiOut = NoOutcome
  /\ cfgFile = HandWrittenConfig
  /\ sdkInstalled = TRUE
  /\ head = "main"
  /\ branch = Undefined
  /\ status = Undefined
  /\ config = EmptyRecord
  /\ diff = ""
  /\ message = Undefined
  /\ aiMsg = ""
  /\ r = GitResult(TRUE, "", "")
  /\ gitLog = <<>>
  /\ exitCode = Running
  /\ pushRet = NotReturned
  /\ printed = {}
  /\ aiCalls = 0
  /\ installs = 0
  /\ regens = 0
  /\ manualPrompts = 0
  /\ generateAns = NotAsked
  /\ pushAns = NotAsked

\* The entry point and the subcommands; run() is followed in Spec and SpecCli.
NextArgs ==
  \/ Entry
  \/ CmdUpgrade
  \/ CmdUninstall
  \/ CmdSetupProvider
  \/ CmdSetupKey

SpecArgs == InitArgs /\ [][NextArgs]_vars

\* ---------------------------------------------------------------------------
\* One invocation after another
\* ---------------------------------------------------------------------------
\* The command lines followed from one invocation to the next.
CliArgLists ==
  {<<>>, <<"--force-push", "--branch", "main">>, <<"--help">>, <<"-v">>,
   <<"upgrade">>, <<"uninstall">>, <<"setup">>, <<"--frobnicate">>}

\* config.json before the first invocation.
CliConfigFiles ==
  {[kind |-> "absent", value |-> EmptyRecord],
   [kind |-> "text", text |-> "{oops"],
   HandWrittenConfig}

\* The first invocation on this machine, in a repository on branch dev:
\* there is no welcome marker and no SDK under ~/.gtxr yet.
InitCli ==
  /\ pc = "entry"
  /\ \E args \in CliArgLists : argv = <<"node", "gtxr">> \o args
  /\ opts = DefaultOpts
  /\ welcomed = FALSE
  /\ setupProvider = Undefined
  /\ setupKey = Undefined
  /\ aiOut = NoOutcome
  /\ cfgFile \in CliConfigFiles
  /\ sdkInstalled = FALSE
  /\ head = "dev"
  /\ branch = Undefined
  /\ status = Undefined
  /\ config = EmptyRecord
  /\ diff = ""
  /\ message = Undefined
  /\ aiMsg = ""
  /\ r = GitResult(TRUE, "", "")
  /\ gitLog = <<>>
  /\ exitCode = Running
  /\ pushRet = NotReturned
  /\ printed = {}
  /\ aiCalls = 0
  /\ installs = 0
  /\ regens = 0
  /\ manualPrompts = 0
  /\ generateAns = NotAsked
  /\ pushAns = NotAsked

\* The process has ended and gtxr is started again: a new process starts
\* from the entry with nothing but what is on disk (config.json, the welcome
\* marker, the installed SDKs, the repository).
Invoke ==
  /\ pc = "exited"
  /\ pc' = "entry"
  /\ \E args \in CliArgLists : argv' = <<"node", "gtxr">> \o args
  /\ opts' = DefaultOpts
  /\ setupProvider' = Undefined
  /\ setupKey' = Undefined
  /\ aiOut' = NoOutcome
  /\ branch' = Undefined
  /\ status' = Undefined
  /\ config' = EmptyRecord
  /\ diff' = ""
  /\ message' = Undefined
  /\ aiMsg' = ""
  /\ r' = GitResult(TRUE, "", "")
  /\ gitLog' = <<>>
  /\ exitCode' = Running
  /\ pushRet' = NotReturned
  /\ printed' = {}
  /\ aiCalls' = 0
  /\ installs' = 0
  /\ regens' = 0
  /\ manualPrompts' = 0
  /\ generateAns' = NotAsked
  /\ pushAns' = NotAsked
  /\ UNCHANGED <<cfgFile, welcomed, sdkInstalled, head>>

NextCli ==
  \/ Entry
  \/ CmdUpgrade
  \/ CmdUninstall
  \/ CmdSetupProvider
  \/ CmdSetupKey
  \/ Next
  \/ Invoke

SpecCli == InitCli /\ [][NextCli]_vars


\* ---------------------------------------------------------------------------
\* Properties
\* ---------------------------------------------------------------------------
\* The push and pull commands issued so far, in order.
PushLog == SelectSeq(gitLog, LAMBDA e : e.args[1] \in {"push", "pull"})

PlainPush == <<"push", "origin", branch>>
ForcePush == <<"push", "--force", "origin", branch>>
SetUpstreamPush == <<"push", "--set-upstream", "origin", branch>>
PullRebase == <<"pull", "--rebase", "origin", branch>>

RejectionMarkers == {"rejected", "non-fast-forward", "fetch first"}

\* push() has returned.
PushReturned == pushRet # NotReturned

\* The first command of push() was a plain push that failed.
FirstPlainPushFailed(log) ==
  /\ Len(log) >= 1
  /\ log[1].args = PlainPush
  /\ ~log[1].ok

\* C1: when the first plain push fails with a stderr that contains
\* "no upstream" and also a rejection marker, push() takes the no-upstream
\* path: the next command is push --set-upstream, and no pull --rebase is
\* ever issued.
C1_NoUpstreamBeforeRejected ==
  LET log == PushLog
  IN  ( /\ FirstPlainPushFailed(log)
        /\ Includes(log[1].stderr, "no upstream")
        /\ \E k \in RejectionMarkers : Includes(log[1].stderr, k) )
      => /\ \A i \in 1..Len(log) : log[i].args # PullRebase
         /\ Len(log) = 1 => pc = "push_upstream"
         /\ Len(log) >= 2 => log[2].args = SetUpstreamPush
         /\ PushReturned => Len(log) >= 2

C1_Witness ==
  LET log == PushLog
  IN  /\ PushReturned
      /\ FirstPlainPushFailed(log)
      /\ log[1].stderr = "no upstream; push rejected"

\* C2: without the force flag, when the first plain push fails with a
\* no-upstream stderr, exactly one push --set-upstream follows, push()
\* returns true iff that attempt succeeded, and whatever its stderr no other
\* git command follows it.
C2_SetUpstreamOnceTerminal ==
  LET log == PushLog
  IN  ( /\ FirstPlainPushFailed(log)
        /\ Includes(log[1].stderr, "no upstream") )
      => /\ Len(log) <= 2
         /\ Len(log) = 1 => (pc = "push_upstream" /\ ~PushReturned)
         /\ Len(log) = 2 =>
              /\ log[2].args = SetUpstreamPush
              /\ gitLog[Len(gitLog)] = log[2]
              /\ pushRet = <<log[2].ok>>
              /\ pc = "exited"

C2_Witness ==
  LET log == PushLog
  IN  /\ pushRet = <<FALSE>>
      /\ FirstPlainPushFailed(log)
      /\ log[1].stderr = "fatal: The current branch has no upstream branch"
      /\ Len(log) = 2
      /\ ~log[2].ok
      /\ log[2].stderr = "! [rejected] main -> main (non-fast-forward)"

\* C3: without the force flag, when the first plain push fails with a
\* rejection stderr that has no no-upstream marker, exactly one pull --rebase
\* is attempted; a failed rebase is followed by no push and push() returns
\* false; a successful rebase is followed by exactly one plain push and
\* push() returns true iff that push succeeded.
C3_RebaseThenRetryOnce ==
  LET log == PushLog
  IN  ( /\ FirstPlainPushFailed(log)
        /\ ~Includes(log[1].stderr, "no upstream")
        /\ LET lower == ToLowerCase(log[1].stderr)
           IN  \E k \in RejectionMarkers : Includes(lower, k) )
      => /\ Len(log) <= 3
         /\ Len(log) = 1 => (pc = "push_rebase" /\ ~PushReturned)
         /\ Len(log) >= 2 => log[2].args = PullRebase
         /\ (Len(log) = 2 /\ ~log[2].ok) => (pushRet = <<FALSE>> /\ pc = "exited")
         /\ (Len(log) = 2 /\ log[2].ok) => (pc = "push_retry" /\ ~PushReturned)
         /\ Len(log) = 3 =>
              /\ log[2].ok
              /\ log[3].args = PlainPush
              /\ gitLog[Len(gitLog)] = log[3]
              /\ pushRet = <<log[3].ok>>
              /\ pc = "exited"

C3_Witness ==
  LET log == PushLog
  IN  /\ pushRet = <<FALSE>>
      /\ FirstPlainPushFailed(log)
      /\ log[1].stderr = "! [rejected] main -> main (non-fast-forward)"
      /\ Len(log) = 3
      /\ ~log[3].ok
      /\ log[3].stderr = "has no upstream (non-fast-forward)"

\* C4: with the force flag set, push() issues exactly one git command, a
\* push --force to origin/<branch>, and returns true iff it succeeded; no
\* other push or pull follows whatever stderr the failure had.
C4_ForcePushTerminal ==
  LET log == PushLog
  IN  opts.forcePush
      => /\ Len(log) <= 1
         /\ PushReturned => Len(log) = 1
         /\ Len(log) = 1 =>
              /\ log[1].args = ForcePush
              /\ gitLog[Len(gitLog)] = log[1]
              /\ pushRet = <<log[1].ok>>
              /\ pc = "exited"

C4_Witness ==
  LET log == PushLog
  IN  /\ opts.forcePush
      /\ pushRet = <<FALSE>>
      /\ Len(log) = 1
      /\ ~log[1].ok
      /\ log[1].stderr = "no upstream; push rejected"


\* The positions of gitLog that hold a command of the given kinds.
Calls(kinds) == {i \in 1..Len(gitLog) : gitLog[i].args[1] \in kinds}

\* C5: when git status --short yields empty output, run() prints the
\* nothing-to-commit warning and exits with status 0, and no git add, commit,
\* push or pull is invoked in that execution, whatever the options.
C5_CleanTreeExitsZero ==
  status = ""
  => /\ pc = "exited"
     /\ exitCode = 0
     /\ "nothing_to_commit" \in printed
     /\ Calls({"add", "commit", "push", "pull"}) = {}

C5_Witness ==
  /\ status = ""
  /\ pc = "exited"
  /\ opts.forcePush /\ ~opts.noPush /\ ~opts.noAi
  /\ Calls({"checkout"}) # {}

\* C6: git commit is invoked only after git add succeeded and a non-empty
\* commit message was obtained; the push dispatcher is invoked only after
\* git commit succeeded; add and commit are each invoked at most once.
C6_AddCommitPushOrder ==
  /\ Cardinality(Calls({"add"})) <= 1
  /\ Cardinality(Calls({"commit"})) <= 1
  /\ \A i \in Calls({"commit"}) :
       /\ \E j \in Calls({"add"}) : j < i /\ gitLog[j].ok
       /\ gitLog[i].args = <<"commit", "-m", message>>
       /\ Truthy(message)
  /\ (pc \in {"push", "push_upstream", "push_rebase", "push_retry"}
        \/ PushReturned \/ Calls({"push", "pull"}) # {})
     => \E i \in Calls({"commit"}) :
           /\ gitLog[i].ok
           /\ \A j \in Calls({"push", "pull"}) : i < j

C6_Witness ==
  /\ PushReturned
  /\ Calls({"pull"}) # {}
  /\ \E i \in Calls({"commit"}) : gitLog[i].args[3] = "Fix login bug"

\* The fatal conditions of the workflow, once detected.
NotARepository == \E i \in Calls({"rev-parse"}) : ~gitLog[i].ok
AddFailed == \E i \in Calls({"add"}) : ~gitLog[i].ok
EmptyCommitMessage == message = Null
CommitFailed == \E i \in Calls({"commit"}) : ~gitLog[i].ok
ExceptionInRun == config.type = "null" /\ pc # "getCommitMessage"

\* C7: each fatal condition (not a git repository, git add failure, empty
\* commit message, git commit failure, an exception thrown inside run())
\* ends the process with exit status 1, and no git add, commit, push or pull
\* is invoked after the condition is detected.
C7_FatalExitsOne ==
  /\ (NotARepository \/ AddFailed \/ EmptyCommitMessage \/ CommitFailed
        \/ ExceptionInRun)
     => (pc = "exited" /\ exitCode = 1)
  /\ NotARepository => Len(gitLog) = 1
  /\ \A i \in Calls({"add", "commit"}) : ~gitLog[i].ok => i = Len(gitLog)
  /\ (EmptyCommitMessage \/ ExceptionInRun) => Calls({"commit", "push", "pull"}) = {}

C7_Witness ==
  /\ ExceptionInRun
  /\ pc = "exited"
  /\ exitCode = 1
  /\ "unexpected_error" \in printed

\* C8: whenever push() returns false inside run(), the workflow ends with
\* exit status 1 instead of reporting completion with status 0.
C8_PushFailureIsFatal ==
  (pushRet = <<FALSE>> /\ pc = "exited") => exitCode = 1

\* The push dispatcher has been invoked.
DispatcherInvoked ==
  \/ pc \in {"push", "push_upstream", "push_rebase", "push_retry"}
  \/ PushReturned
  \/ Calls({"push", "pull"}) # {}

\* C9: with noPush set, run() never invokes git push or git pull and never
\* asks the push question, and the commit is still made once a message was
\* obtained; with noPush not set, the dispatcher is invoked iff the answer to
\* the push prompt is empty or "y" in either case.
C9_NoPushSkipsDispatcher ==
  /\ opts.noPush =>
       /\ ~DispatcherInvoked
       /\ pushAns = NotAsked
       /\ pc # "push_prompt"
       /\ (Truthy(message) /\ pc # "commit") =>
             \E i \in Calls({"commit"}) : gitLog[i].args = <<"commit", "-m", message>>
  /\ ~opts.noPush =>
       /\ pushAns = NotAsked => ~DispatcherInvoked
       /\ pushAns # NotAsked => (DispatcherInvoked <=> pushAns \in {"", "y", "Y"})

C9_Witness ==
  /\ opts.noPush
  /\ pc = "exited"
  /\ exitCode = 0
  /\ \E i \in Calls({"commit"}) : gitLog[i].ok

\* C10: callAI is invoked only when the loaded configuration has both a
\* provider and an API key, noAi is not set, the user did not decline
\* generation and the diff is non-empty; with noAi set, callAI is never
\* invoked, no SDK is installed, and the message comes from exactly one
\* manual prompt.
C10_AiOnlyWhenEnabled ==
  /\ (aiCalls > 0 \/ installs > 0 \/ pc = "callAI") =>
       /\ Truthy(config.provider)
       /\ Truthy(config.apiKey)
       /\ ~opts.noAi
       /\ generateAns \in {"", "y", "Y"}
       /\ diff # ""
  /\ opts.noAi =>
       /\ aiCalls = 0
       /\ installs = 0
       /\ generateAns = NotAsked
       /\ manualPrompts <= 1
       /\ message # Undefined => manualPrompts = 1

C10_Witness ==
  /\ opts.noAi
  /\ useAi(config, FALSE)
  /\ sdkInstalled
  /\ diff # ""
  /\ Truthy(message)
  /\ manualPrompts = 1


\* The last callAI failed: it threw, or it returned an empty text.
AiFailed == aiOut # NoOutcome /\ (aiOut.threw \/ aiOut.value = "")

AiErrorClasses == {"credits", "invalid_key", "rate_limited", "unknown"}

\* C11: a failure of the AI path (SDK install failure, an exception from the
\* provider call, an empty response) does not end the workflow by itself: it
\* is reported, the user is prompted once for a manual message, callAI is not
\* invoked again, and a non-empty manual message leads to git commit.
C11_AiFailureFallsBackToManual ==
  AiFailed
  => /\ \E c \in AiErrorClasses : ("ai_" \o c) \in printed
     /\ "unexpected_error" \notin printed
     /\ pc \notin {"generate", "callAI", "choice"}
     /\ aiCalls = regens + 1
     /\ manualPrompts = IF pc = "manual" THEN 0 ELSE 1
     /\ pc = "manual" => exitCode = Running
     /\ (pc = "exited" /\ exitCode = 1) => (EmptyCommitMessage \/ CommitFailed)
     /\ (pc # "manual" /\ ~EmptyCommitMessage) =>
          /\ Truthy(message)
          /\ pc = "commit" \/ \E i \in Calls({"commit"}) :
                                  gitLog[i].args = <<"commit", "-m", message>>

C11_Witness ==
  /\ AiFailed
  /\ aiOut.value = "Failed to install openai:\nnpm ERR!"
  /\ message = "fix typo"
  /\ \E i \in Calls({"commit"}) : gitLog[i].ok

\* The configuration file is not a valid configuration record: absent,
\* unreadable or corrupt, or JSON that is not an object.
InvalidConfigFile ==
  \/ cfgFile.kind \in {"absent", "corrupt"}
  \/ (cfgFile.kind = "json" /\ cfgFile.value.type # "object")

\* run() has called loadConfig(): git add succeeded.
ConfigLoaded == \E i \in Calls({"add"}) : gitLog[i].ok

\* C13: for every state of the configuration file that is not a valid
\* configuration record, loadConfig() returns an empty record without
\* throwing, and the workflow continues on the manual commit-message path
\* instead of ending with an error.
C13_InvalidConfigIsEmptyRecord ==
  (InvalidConfigFile /\ ConfigLoaded)
  => /\ config = EmptyRecord
     /\ "unexpected_error" \notin printed
     /\ aiCalls = 0
     /\ generateAns = NotAsked
     /\ pc \notin {"generate", "callAI", "choice"}

\* The number of entries of log whose command is kind.
CountOf(log, kind) == Cardinality({i \in 1..Len(log) : log[i].args[1] = kind})

\* C18: in every execution of push() at most two push commands and at most
\* one pull --rebase are issued, and push() always returns: each step before
\* the return can be taken and the next one ends or moves on.  A first
\* failure matching neither no-upstream nor rejection causes exactly one git
\* command in total, and a failure of the set-upstream push or of the push
\* after the rebase is never classified or remediated.
C18_OneRemediationAtMost ==
  LET log == PushLog
  IN  /\ CountOf(log, "push") <= 2
      /\ CountOf(log, "pull") <= 1
      /\ pc = "push" => (Len(log) = 0 /\ ENABLED (PushForce \/ PushPlain))
      /\ pc = "push_upstream" => (Len(log) = 1 /\ ENABLED PushSetUpstream)
      /\ pc = "push_rebase" => (Len(log) = 1 /\ ENABLED PushPullRebase)
      /\ pc = "push_retry" => (Len(log) = 2 /\ ENABLED PushAfterRebase)
      /\ Len(log) > 0 =>
           (PushReturned <=> pc \notin {"push_upstream", "push_rebase", "push_retry"})
      /\ ( /\ FirstPlainPushFailed(log)
           /\ ~Includes(log[1].stderr, "no upstream")
           /\ LET lower == ToLowerCase(log[1].stderr)
              IN  \A k \in RejectionMarkers : ~Includes(lower, k) )
         => (Len(log) = 1 /\ pushRet = <<FALSE>> /\ gitLog[Len(gitLog)] = log[1])
      /\ (Len(log) >= 2 /\ log[Len(log)].args[1] = "push")
         => /\ pushRet = <<log[Len(log)].ok>>
            /\ gitLog[Len(gitLog)] = log[Len(log)]
            /\ pc = "exited"

C18_Witness ==
  LET log == PushLog
  IN  /\ pushRet = <<FALSE>>
      /\ Len(log) = 3
      /\ log[1].stderr = "Updates were REJECTED"
      /\ log[3].stderr = "fatal: The current branch has no upstream branch"

\* The invariant part of C19.
C19_Counts ==
  /\ aiCalls = IF pc = "callAI" THEN regens
               ELSE IF aiOut = NoOutcome THEN 0 ELSE regens + 1
  /\ pc = "choice" => ~AiFailed
  /\ aiCalls = 0 => regens = 0

\* The step part of C19.
C19_Steps ==
  /\ aiCalls' # aiCalls => (pc = "callAI" /\ aiCalls' = aiCalls + 1)
  /\ regens' # regens => (pc = "choice" /\ regens' = regens + 1 /\ pc' = "callAI")
  /\ (pc' = "callAI" /\ pc # "callAI") =>
        \/ (pc = "generate" /\ aiCalls = 0)
        \/ (pc = "choice" /\ regens' = regens + 1)
  /\ pc = "choice" =>
        \/ (regens' = regens + 1 /\ pc' = "callAI")
        \/ (regens' = regens /\ pc' \in {"manual", "commit"})
  /\ (pc = "callAI" /\ (aiOut'.threw \/ aiOut'.value = "")) => pc' = "manual"
  /\ pc \in {"manual", "commit"} => pc' \notin {"generate", "callAI", "choice"}

\* C19: the provider is never retried automatically: the number of callAI
\* invocations is one plus the number of "r" answers, a new call is made only
\* right after an "r" answer, and getCommitMessage() leaves the loop as soon
\* as the answer is not "r" or a call fails.
C19_NoAutomaticRetry == []C19_Counts /\ [][C19_Steps]_vars

C19_Witness ==
  /\ regens = 1
  /\ aiCalls = 2
  /\ AiFailed
  /\ pc = "exited"

\* The checkout commands issued so far.
CheckoutLog == SelectSeq(gitLog, LAMBDA e : e.args[1] = "checkout")

\* The invariant part of C20.
C20_Order ==
  LET log == CheckoutLog
  IN  /\ Len(log) <= 2
      /\ Len(log) >= 1 =>
           /\ log[1].args = <<"checkout", opts.branch>>
           /\ (log[1].ok \/ Len(log) = 2) <=> pc # "switchBranch_create"
      /\ Len(log) = 2 =>
           /\ ~log[1].ok
           /\ log[2].args = <<"checkout", "-b", opts.branch>>
      /\ (Len(log) >= 1 /\ pc # "switchBranch_create") =>
           (branch = opts.branch <=> \E i \in 1..Len(log) : log[i].ok)
      /\ \A i \in Calls({"commit", "push", "pull"}) :
           gitLog[i].args[1] = "commit" \/ gitLog[i].args[Len(gitLog[i].args)] = branch

\* The step part of C20.
C20_Steps ==
  /\ (pc = "switchBranch_create" /\ ~gitLog'[Len(gitLog')].ok) =>
        (branch' = branch /\ pc' = "status")
  /\ pc \notin {"run", "switchBranch", "switchBranch_create"} => branch' = branch

\* C20: when a branch other than the current one is requested, git checkout
\* <name> is attempted first and git checkout -b <name> only if that failed;
\* the branch used for the rest of the run is the requested name iff one of
\* the two succeeded, and if both fail it is the previously current branch,
\* on which the workflow continues.
C20_SwitchOrKeepBranch == []C20_Order /\ [][C20_Steps]_vars

\* Reference classifier: the groups in their fixed order, each a set of
\* keywords, matched letter by letter without regard to case.
KeywordGroups ==
  << [class |-> "credits", words |-> {"credit", "quota", "insufficient"}],
     [class |-> "invalid_key", words |-> {"invalid", "auth", "401"}],
     [class |-> "rate_limited", words |-> {"rate", "429"}] >>

SameLetter(a, b) ==
  a = b \/ \E i \in 1..26 : {a, b} = {SubSeq(UpperAlpha, i, i), SubSeq(LowerAlpha, i, i)}

OccursIgnoringCase(k, m) ==
  \E i \in 0..(Len(m) - Len(k)) :
    \A j \in 1..Len(k) : SameLetter(SubSeq(m, i + j, i + j), SubSeq(k, j, j))

GroupMatches(g, m) == \E k \in KeywordGroups[g].words : OccursIgnoringCase(k, m)

ReferenceClass(m) ==
  IF \E g \in DOMAIN KeywordGroups : GroupMatches(g, m)
  THEN LET first == CHOOSE g \in DOMAIN KeywordGroups :
                      /\ GroupMatches(g, m)
                      /\ \A h \in 1..(g - 1) : ~GroupMatches(h, m)
       IN  KeywordGroups[first].class
  ELSE "unknown"

\* The classes handleAiError has printed.
PrintedClasses == {c \in AiErrorClasses : ("ai_" \o c) \in printed}

\* C12: handleAiError classifies an error message by case-insensitive
\* substring match, the first matching group winning in the order credits
\* (credit/quota/insufficient), invalid key (invalid/auth/401), rate limited
\* (rate/429), else unknown: for every message the one class it reports is
\* that of the reference classifier; a message with both "quota" and "429" is
\* credits, and a message matching no group is unknown.
C12_ClassifiesLikeReference ==
  pc = "handled"
  => /\ PrintedClasses = {ReferenceClass(aiOut.value)}
     /\ (OccursIgnoringCase("quota", aiOut.value) /\ OccursIgnoringCase("429", aiOut.value))
          => "ai_credits" \in printed
     /\ (\A g \in DOMAIN KeywordGroups : ~GroupMatches(g, aiOut.value))
          => "ai_unknown" \in printed

C12_Witness ==
  /\ pc = "handled"
  /\ aiOut.value = "Quota 429"
  /\ "ai_credits" \in printed
  /\ "ai_rate_limited" \notin printed

\* The tokens after "node gtxr".
Args == SubSeq(argv, 3, Len(argv))

IsBranchFlag(t) == ToLowerCase(t) \in {"--branch", "-b"}

RECURSIVE IsValuePosition(_, _)
\* Position i of args holds the value of a --branch/-b standing before it.
IsValuePosition(args, i) ==
  i > 1 /\ IsBranchFlag(args[i - 1]) /\ ~IsValuePosition(args, i - 1)

FlagPositions(args) == {i \in 1..Len(args) : ~IsValuePosition(args, i)}

ParseErrors == {"unknown_argument", "branch_requires_name"}

\* The process ends in the step from the entry with status 1, having printed
\* only the parse error, and nothing else has happened.
FatalParseError ==
  /\ pc' = "exited"
  /\ exitCode' = 1
  /\ \E e \in ParseErrors : printed' = printed \cup {e}
  /\ UNCHANGED <<welcomed, cfgFile, sdkInstalled, gitLog, setupProvider, setupKey, opts>>

\* A token outside the twelve spellings as they are written, or a trailing
\* --branch/-b.
RejectedAsWritten(args) ==
  \/ \E i \in FlagPositions(args) : args[i] \notin VALID_ARGS
  \/ Len(args) \in FlagPositions(args) /\ args[Len(args)] \in {"--branch", "-b"}

\* The same with the tokens compared without regard to case.
RejectedIgnoringCase(args) ==
  \/ \E i \in FlagPositions(args) : ToLowerCase(args[i]) \notin VALID_ARGS
  \/ Len(args) \in FlagPositions(args) /\ IsBranchFlag(args[Len(args)])

\* C16 as stated: every argv with a token, outside the value position after
\* --branch/-b, that is not one of the twelve recognized spellings, or
\* ending with --branch/-b without a value, makes parseArgs end the process
\* with status 1 before anything else runs.
C16_UnrecognizedTokenIsFatal ==
  [][(pc = "entry" /\ RejectedAsWritten(Args)) => FatalParseError]_vars

\* C16: every argv with a token, outside the value position after
\* --branch/-b, that compared without regard to case is not one of the twelve
\* recognized spellings, or ending with --branch/-b without a value, makes
\* parseArgs end the process with status 1 before any subcommand, first-run
\* banner or git command runs, also when --help or --version is in argv.
C16_UnrecognizedTokenIgnoringCaseIsFatal ==
  [][(pc = "entry" /\ RejectedIgnoringCase(Args)) => FatalParseError]_vars

C16_Witness ==
  /\ Args = <<"--help", "foo", "-v">>
  /\ pc = "exited"
  /\ exitCode = 1
  /\ printed = {"unknown_argument"}

\* The tokens that set each boolean option.
FlagTokens ==
  [version |-> {"-v", "--version"}, help |-> {"-h", "--help"},
   setup |-> {"setup"}, upgrade |-> {"upgrade"}, uninstall |-> {"uninstall"},
   noPush |-> {"--no-push"}, noAi |-> {"--no-ai"}, forcePush |-> {"--force-push"}]

\* parseArgs has returned its options, which opts holds.
Parsed == pc # "entry" /\ ~(exitCode = 1 /\ printed \subseteq ParseErrors)

\* C17 as stated: for every argv made of recognized tokens, each boolean
\* option in the result of parseArgs is true iff its flag token occurs in
\* argv.
C17_FlagsCombineIndependently ==
  (Parsed /\ \A i \in 1..Len(Args) : Args[i] \in VALID_ARGS)
  => \A o \in DOMAIN FlagTokens :
       opts[o] <=> \E i \in 1..Len(Args) : Args[i] \in FlagTokens[o]

\* C17: for every argv parseArgs accepts, each boolean option (noPush, noAi,
\* forcePush, version, help, setup, upgrade, uninstall) in the result is true
\* iff one of its flag tokens, compared without regard to case, occurs in
\* argv outside the value position after --branch/-b, whatever the order of
\* the tokens and whatever other recognized tokens are present.
C17_FlagsOutsideValuePositionCombine ==
  Parsed
  => \A o \in DOMAIN FlagTokens :
       opts[o] <=> \E i \in FlagPositions(Args) : ToLowerCase(Args[i]) \in FlagTokens[o]

C17_Witness ==
  /\ Parsed
  /\ Args = <<"--no-ai", "--NO-PUSH", "-h">>
  /\ opts.noAi /\ opts.noPush /\ opts.help
  /\ ~opts.forcePush /\ ~opts.version

\* C14: after saveConfig(r), as a successful setup does it, loadConfig()
\* returns a record equal to r, for every r over the three providers and any
\* key, and no field of the record stored before survives the write.
C14_ConfigRoundTrip ==
  "configured" \in printed
  => /\ setupProvider \in PROVIDERS
     /\ setupKey # ""
     /\ JSONparse(cfgFile.text).ok
     /\ loadConfig(cfgFile) = ConfigObject(setupProvider, setupKey)
     /\ DOMAIN loadConfig(cfgFile) = {"type", "provider", "apiKey"}

C14_Witness ==
  /\ "configured" \in printed
  /\ setupProvider = "gemini"
  /\ setupKey = "sk-\"q\"\\x"
  /\ loadConfig(cfgFile).apiKey = setupKey
  /\ loadConfig(HandWrittenConfig).model = "gpt-4"

\* What loadConfig() would return.
StoredRecord(file) == loadConfig(file)

\* This step changes the stored record.
RecordChanges == cfgFile' # cfgFile /\ StoredRecord(cfgFile') # StoredRecord(cfgFile)

\* The step of a setup in which saveConfig runs: the provider entered is a
\* recognized one and the key entered is not empty.
SuccessfulSetupStep ==
  /\ pc = "setupKey"
  /\ opts.setup
  /\ setupProvider \in PROVIDERS
  /\ setupKey' # ""
  /\ "configured" \in printed'
  /\ StoredRecord(cfgFile') = ConfigObject(setupProvider, setupKey')

\* The step of an uninstall that was confirmed: ~/.gtxr is removed.
ConfirmedUninstallStep ==
  /\ pc = "uninstall"
  /\ opts.uninstall
  /\ "uninstall_cancelled" \notin printed'
  /\ cfgFile'.kind = "absent"

\* C15 as stated: across any sequence of invocations the stored record
\* changes only during a setup in which a recognized provider and a
\* non-empty API key were entered; every other command leaves it unchanged.
C15_OnlySetupMutatesConfig ==
  [][RecordChanges => SuccessfulSetupStep]_vars

\* C15: across any sequence of invocations (workflow, help, version, upgrade,
\* uninstall, setup) the stored record changes only during a setup in which a
\* recognized provider and a non-empty API key were entered, or when a
\* confirmed uninstall removes the configuration directory; a setup with an
\* unrecognized provider or an empty key, a cancelled uninstall and every
\* other command leave it unchanged.
C15_OnlySetupOrUninstallMutatesConfig ==
  [][RecordChanges => (SuccessfulSetupStep \/ ConfirmedUninstallStep)]_vars

C15_Witness ==
  /\ pc = "exited"
  /\ "uninstall_cancelled" \in printed
  /\ cfgFile.kind = "text"
  /\ StoredRecord(cfgFile) = ConfigObject("gemini", "sk-test")

====
